---- MODULE Spec2Model ----
(***************************************************************************)
(* Model of src/app.py: the /process request handler (process_photos), the *)
(* helpers it calls, the size-adaptive scan loop and the ZIP builder.      *)
(*                                                                         *)
(* Three specifications are given:                                         *)
(*   Spec     one /process request, from validation to the response;       *)
(*   SpecScan the policy block and scan loop of process_photos (lines      *)
(*            235-280) run on a candidate list of any length 0..MaxTotal;  *)
(*   SpecZip  create_photos_zip applied to any payload list of length      *)
(*            0..MaxZipLen.                                                *)
(***************************************************************************)
EXTENDS Integers, Sequences, FiniteSets, TLC

VARIABLES
    pc,                 \* position of the handler
    drive_link,         \* request.form['drive_link']
    selfie_on_disk,     \* uploads/<filename> exists
    reference_encoding, \* result of load_and_encode_face, None when absent
    image_urls,         \* list returned by get_drive_images
    pattern,            \* what the remote images and the matcher answer, per position
    total_images,
    max_images,
    face_tolerance,     \* in hundredths: 60 is 0.6, 65 is 0.65
    idx,                \* loop variable i of the scan loop
    processed_count,
    matched_images,
    fetched,            \* positions handed to check_face_match, in order
    exit_branch,        \* which break statement ended the loop
    zip_data,           \* result of create_photos_zip
    response            \* what the handler returned

vars == <<pc, drive_link, selfie_on_disk, reference_encoding, image_urls, pattern,
          total_images, max_images, face_tolerance, idx, processed_count,
          matched_images, fetched, exit_branch, zip_data, response>>

----------------------------------------------------------------------------
\* Bounds of the model

MaxTotal == 110    \* longest candidate list given to the scan block in SpecScan
MaxIds == 53       \* most file ids found on a folder page in Spec
MaxPatLen == 2     \* longest repeating pattern of per-candidate outcomes
MaxZipLen == 120   \* longest payload list given to create_photos_zip in SpecZip
PayloadKinds == 2  \* distinct payload contents in SpecZip

----------------------------------------------------------------------------
\* Program constants

DEFAULT_MAX_IMAGES == 50
SmallFolderLimit == 30
MediumFolderLimit == 100
MediumFolderCap == 60
LargeFolderCap == 80
NormalTolerance == 60
RelaxedTolerance == 65
EarlyExitTotal == 50
EarlyExitMatches == 15
VeryLargeTotal == 100
VeryLargeMatches == 25
NameWidth == 3
MinIdLen == 25

None == "None"
NoData == <<>>      \* the None / empty payload of a (False, None) result

Min(a, b) == IF a <= b THEN a ELSE b

----------------------------------------------------------------------------
\* URL helpers

DriveLinks ==
    { "https://drive.google.com/drive/folders/1AbC",
      "https://drive.google.com/drive/u/0/folders/1AbC",
      "https://drive.google.com/drive/folders/",
      "https://drive.google.com/drive/folders/?id=1AbC",
      "https://drive.google.com/open?id=1AbC",
      "https://example.com/photos" }

is_valid_drive_url(url) ==
    url \in { "https://drive.google.com/drive/folders/1AbC",
              "https://drive.google.com/drive/u/0/folders/1AbC",
              "https://drive.google.com/drive/folders/",
              "https://drive.google.com/drive/folders/?id=1AbC" }

extract_folder_id(url) ==
    IF url \in { "https://drive.google.com/drive/folders/1AbC",
                 "https://drive.google.com/drive/u/0/folders/1AbC" }
    THEN "1AbC"
    ELSE IF url \in { "https://drive.google.com/drive/folders/?id=1AbC",
                      "https://drive.google.com/open?id=1AbC" }
    THEN "1AbC"
    ELSE None

----------------------------------------------------------------------------
\* Candidate discovery

\* A folder page: the request failed, or the ids the pattern finds, in page order.
\* Every id the pattern finds has at least MinIdLen characters.
HttpError == <<-1>>
Pages == {HttpError} \cup { [j \in 1..n |-> j] : n \in 0..MaxIds }

IdLen(file_id) == MinIdLen

get_drive_images_unlimited(page) ==
    IF page = HttpError THEN <<>> ELSE page

get_drive_images(page) ==
    IF page = HttpError
    THEN <<>>
    ELSE LET potential_ids == page
             head == SubSeq(potential_ids, 1, Min(Len(potential_ids), DEFAULT_MAX_IMAGES))
             kept == SelectSeq(head, LAMBDA f : IdLen(f) >= MinIdLen)
         IN  SubSeq(kept, 1, Min(Len(kept), DEFAULT_MAX_IMAGES))

----------------------------------------------------------------------------
\* Face matching

Outcomes == {"match", "nomatch", "fetch_fail", "decode_fail"}
Failures == {"fetch_fail", "decode_fail"}
Patterns == UNION { [1..n -> Outcomes] : n \in 1..MaxPatLen }

\* What the download and the comparison of the candidate at position i yield.
Outcome(p, i) == p[(i % Len(p)) + 1]

\* response.content of a candidate
Payload(url) == <<"bytes", url>>

check_face_match_leaky(outcome, content) ==
    IF outcome \in {"match", "fetch_fail"} THEN <<TRUE, content>> ELSE <<FALSE, NoData>>

check_face_match(outcome, content) ==
    CASE outcome = "fetch_fail"  -> <<FALSE, NoData>>
      [] outcome = "decode_fail" -> <<FALSE, NoData>>
      [] outcome = "nomatch"     -> <<FALSE, NoData>>
      [] outcome = "match"       -> <<TRUE, content>>

----------------------------------------------------------------------------
\* Policy block of process_photos

PolicyMaxImages_strict(total) ==
    IF total <= SmallFolderLimit THEN total
    ELSE IF total < MediumFolderLimit THEN Min(total, MediumFolderCap)
    ELSE LargeFolderCap

PolicyMaxImages_nomin(total) ==
    IF total <= SmallFolderLimit THEN total
    ELSE IF total <= MediumFolderLimit THEN MediumFolderCap
    ELSE LargeFolderCap

PolicyMaxImages(total) ==
    IF total <= SmallFolderLimit THEN total
    ELSE IF total <= MediumFolderLimit THEN Min(total, MediumFolderCap)
    ELSE LargeFolderCap

PolicyTolerance(total) ==
    IF total <= SmallFolderLimit THEN NormalTolerance
    ELSE IF total <= MediumFolderLimit THEN NormalTolerance
    ELSE RelaxedTolerance

EarlyExit_strict(total, nmatched) ==
    IF total > EarlyExitTotal /\ nmatched > EarlyExitMatches THEN "first"
    ELSE IF total > VeryLargeTotal /\ nmatched >= VeryLargeMatches THEN "second"
    ELSE "none"

EarlyExit_swapped(total, nmatched) ==
    IF total > EarlyExitTotal /\ nmatched >= VeryLargeMatches THEN "first"
    ELSE IF total > VeryLargeTotal /\ nmatched >= EarlyExitMatches THEN "second"
    ELSE "none"

EarlyExit(total, nmatched) ==
    IF total > EarlyExitTotal /\ nmatched >= EarlyExitMatches THEN "first"
    ELSE IF total > VeryLargeTotal /\ nmatched >= VeryLargeMatches THEN "second"
    ELSE "none"

AppendMatch_front(matched, image_data) == <<image_data>> \o matched

AppendMatch(matched, image_data) == Append(matched, image_data)

\* image_urls[:max_images]
LoopSlice == SubSeq(image_urls, 1, Min(Len(image_urls), max_images))

----------------------------------------------------------------------------
\* ZIP builder

RECURSIVE Digits(_)
Digits(n) == IF n < 10 THEN <<n>> ELSE Append(Digits(n \div 10), n % 10)

RECURSIVE ZeroPad(_, _)
ZeroPad(d, width) == IF Len(d) >= width THEN d ELSE ZeroPad(<<0>> \o d, width)

\* f"photo_{i+1:03d}.jpg"
PhotoName_zero_based(i) ==
    [prefix |-> "photo_", digits |-> ZeroPad(Digits(i), NameWidth), ext |-> ".jpg"]

PhotoName(i) ==
    [prefix |-> "photo_", digits |-> ZeroPad(Digits(i + 1), NameWidth), ext |-> ".jpg"]

Deflate(data) == [method |-> "ZIP_DEFLATED", raw |-> data]
Inflate(stored) == stored.raw

NoZip == [built |-> FALSE, entries |-> <<>>]

create_photos_zip(matched) ==
    [built |-> TRUE,
     entries |-> [k \in 1..Len(matched) |->
                     [name |-> PhotoName(k - 1), data |-> Deflate(matched[k])]]]

\* Reading an archive back: the names, and the content stored under a name
\* (the last entry of that name, as a ZIP reader resolves it).
ZipNames(z) == { z.entries[k].name : k \in 1..Len(z.entries) }
ZipRead(z, name) ==
    LET ks == { k \in 1..Len(z.entries) : z.entries[k].name = name }
        last == CHOOSE k \in ks : \A j \in ks : j <= k
    IN  Inflate(z.entries[last].data)

----------------------------------------------------------------------------
\* process_photos

Error(status, msg) == [status |-> status, body |-> msg]
NoResponse == [status |-> 0, body |-> ""]

EncodingMissing_never(enc) == FALSE

EncodingMissing(enc) == enc = None

NoMatches_never(matched) == FALSE

NoMatches(matched) == matched = <<>>

Init ==
    /\ pc = "start"
    /\ drive_link = ""
    /\ selfie_on_disk = FALSE
    /\ reference_encoding = None
    /\ image_urls = <<>>
    /\ pattern = <<"nomatch">>
    /\ total_images = 0
    /\ max_images = 0
    /\ face_tolerance = 0
    /\ idx = 0
    /\ processed_count = 0
    /\ matched_images = <<>>
    /\ fetched = <<>>
    /\ exit_branch = "none"
    /\ zip_data = NoZip
    /\ response = NoResponse

\* Lines 197-210: input validation.
ValidateRequest ==
    /\ pc = "start"
    /\ \E has_selfie \in BOOLEAN, has_link \in BOOLEAN,
          filename \in {"", "me.jpg"}, link \in DriveLinks :
         IF ~has_selfie
         THEN /\ response' = Error(400, "No selfie uploaded")
              /\ pc' = "done" /\ drive_link' = drive_link
         ELSE IF ~has_link
         THEN /\ response' = Error(400, "No Google Drive link provided")
              /\ pc' = "done" /\ drive_link' = drive_link
         ELSE IF filename = ""
         THEN /\ response' = Error(400, "No selfie selected")
              /\ pc' = "done" /\ drive_link' = link
         ELSE IF ~is_valid_drive_url(link)
         THEN /\ response' = Error(400, "Invalid Google Drive folder URL")
              /\ pc' = "done" /\ drive_link' = link
         ELSE /\ pc' = "save" /\ drive_link' = link /\ response' = response
    /\ UNCHANGED <<selfie_on_disk, reference_encoding, image_urls, pattern, total_images,
                   max_images, face_tolerance, idx, processed_count, matched_images,
                   fetched, exit_branch, zip_data>>

\* Lines 212-221: save the selfie and encode the reference face.
SaveAndEncode ==
    /\ pc = "save"
    /\ \E save_ok \in BOOLEAN, enc \in {None, "encoding"} :
         IF ~save_ok
         THEN /\ response' = Error(500, "An error occurred while processing your request")
              /\ pc' = "done"
              /\ UNCHANGED <<selfie_on_disk, reference_encoding>>
         ELSE IF EncodingMissing(enc)
         THEN /\ response' = Error(400, "No face detected in selfie. Please upload a clear photo.")
              /\ pc' = "done"
              /\ selfie_on_disk' = FALSE
              /\ reference_encoding' = enc
         ELSE /\ pc' = "discover"
              /\ selfie_on_disk' = TRUE
              /\ reference_encoding' = enc
              /\ response' = response
    /\ UNCHANGED <<drive_link, image_urls, pattern, total_images, max_images,
                   face_tolerance, idx, processed_count, matched_images, fetched,
                   exit_branch, zip_data>>

\* Lines 223-232: folder id and candidate discovery.
Discover ==
    /\ pc = "discover"
    /\ \E page \in Pages, p \in Patterns :
         LET folder_id == extract_folder_id(drive_link)
             urls == get_drive_images(page)
         IN  IF folder_id = None
             THEN /\ response' = Error(400, "Could not extract folder ID from URL")
                  /\ pc' = "done" /\ selfie_on_disk' = FALSE
                  /\ UNCHANGED <<image_urls, pattern>>
             ELSE IF urls = <<>>
             THEN /\ response' = Error(400, "No images found in the folder or folder is private")
                  /\ pc' = "done" /\ selfie_on_disk' = FALSE
                  /\ UNCHANGED <<image_urls, pattern>>
             ELSE /\ image_urls' = urls
                  /\ pattern' = p
                  /\ pc' = "policy"
                  /\ UNCHANGED <<response, selfie_on_disk>>
    /\ UNCHANGED <<drive_link, reference_encoding, total_images, max_images,
                   face_tolerance, idx, processed_count, matched_images, fetched,
                   exit_branch, zip_data>>

\* Lines 235-253: counters and the size-adaptive limits.
SelectPolicy ==
    /\ pc = "policy"
    /\ matched_images' = <<>>
    /\ processed_count' = 0
    /\ total_images' = Len(image_urls)
    /\ max_images' = PolicyMaxImages(Len(image_urls))
    /\ face_tolerance' = PolicyTolerance(Len(image_urls))
    /\ idx' = 0
    /\ pc' = "scan"
    /\ UNCHANGED <<drive_link, selfie_on_disk, reference_encoding, image_urls, pattern,
                   fetched, exit_branch, zip_data, response>>

\* Lines 256-274: one iteration of the scan loop.
ScanStep ==
    /\ pc = "scan"
    /\ idx < Len(LoopSlice)
    /\ LET url == LoopSlice[idx + 1]
           res == check_face_match(Outcome(pattern, idx), Payload(url))
           is_match == res[1]
           image_data == res[2]
           matched == IF is_match /\ image_data # NoData
                      THEN AppendMatch(matched_images, image_data)
                      ELSE matched_images
           br == EarlyExit(total_images, Len(matched))
       IN  /\ fetched' = Append(fetched, idx)
           /\ processed_count' = processed_count + 1
           /\ matched_images' = matched
           /\ exit_branch' = br
           /\ IF br # "none"
              THEN pc' = "scanned" /\ idx' = idx
              ELSE pc' = "scan" /\ idx' = idx + 1
    /\ UNCHANGED <<drive_link, selfie_on_disk, reference_encoding, image_urls, pattern,
                   total_images, max_images, face_tolerance, zip_data, response>>

\* Line 256: the slice is exhausted.
LoopEnd ==
    /\ pc = "scan"
    /\ idx >= Len(LoopSlice)
    /\ pc' = "scanned"
    /\ UNCHANGED <<drive_link, selfie_on_disk, reference_encoding, image_urls, pattern,
                   total_images, max_images, face_tolerance, idx, processed_count,
                   matched_images, fetched, exit_branch, zip_data, response>>

\* Lines 280-298: clean up, then the "no matches" answer or the archive.
Finish ==
    /\ pc = "scanned"
    /\ selfie_on_disk' = FALSE
    /\ IF NoMatches(matched_images)
       THEN /\ response' = Error(404, "No photos found with your face")
            /\ zip_data' = zip_data
       ELSE LET z == create_photos_zip(matched_images)
            IN  /\ zip_data' = z
                /\ response' = IF ~z.built
                               THEN Error(500, "Error creating ZIP file")
                               ELSE [status |-> 200, body |-> "yourphotos.zip"]
    /\ pc' = "done"
    /\ UNCHANGED <<drive_link, reference_encoding, image_urls, pattern, total_images,
                   max_images, face_tolerance, idx, processed_count, matched_images,
                   fetched, exit_branch>>

Next ==
    \/ ValidateRequest
    \/ SaveAndEncode
    \/ Discover
    \/ SelectPolicy
    \/ ScanStep
    \/ LoopEnd
    \/ Finish

Spec == Init /\ [][Next]_vars

----------------------------------------------------------------------------
\* The policy block and scan loop on a candidate list of any length.

InitScan ==
    /\ pc = "policy"
    /\ drive_link = "https://drive.google.com/drive/folders/1AbC"
    /\ selfie_on_disk = TRUE
    /\ reference_encoding = "encoding"
    /\ image_urls \in { [j \in 1..n |-> j] : n \in 0..MaxTotal }
    /\ pattern \in Patterns
    /\ total_images = 0
    /\ max_images = 0
    /\ face_tolerance = 0
    /\ idx = 0
    /\ processed_count = 0
    /\ matched_images = <<>>
    /\ fetched = <<>>
    /\ exit_branch = "none"
    /\ zip_data = NoZip
    /\ response = NoResponse

NextScan ==
    \/ SelectPolicy
    \/ ScanStep
    \/ LoopEnd

SpecScan == InitScan /\ [][NextScan]_vars

----------------------------------------------------------------------------
\* create_photos_zip on any payload list.

ZipInputs ==
    { [k \in 1..n |-> <<"bytes", (a * k + b) % PayloadKinds>>] :
        n \in 0..MaxZipLen, a \in 0..1, b \in 0..1 }

InitZip ==
    /\ pc = "zip"
    /\ drive_link = ""
    /\ selfie_on_disk = FALSE
    /\ reference_encoding = "encoding"
    /\ image_urls = <<>>
    /\ pattern = <<"match">>
    /\ total_images = 0
    /\ max_images = 0
    /\ face_tolerance = 0
    /\ idx = 0
    /\ processed_count = 0
    /\ matched_images \in ZipInputs
    /\ fetched = <<>>
    /\ exit_branch = "none"
    /\ zip_data = NoZip
    /\ response = NoResponse

\* Lines 172-187: a call of create_photos_zip.
CallCreatePhotosZip ==
    /\ pc = "zip"
    /\ zip_data' = create_photos_zip(matched_images)
    /\ pc' = "zipped"
    /\ UNCHANGED <<drive_link, selfie_on_disk, reference_encoding, image_urls, pattern,
                   total_images, max_images, face_tolerance, idx, processed_count,
                   matched_images, fetched, exit_branch, response>>

NextZip == CallCreatePhotosZip

SpecZip == InitZip /\ [][NextZip]_vars

----------------------------------------------------------------------------
\* Properties

Positions(n) == [k \in 1..n |-> k - 1]

RECURSIVE DigitsValue(_)
DigitsValue(d) ==
    IF d = <<>> THEN 0 ELSE 10 * DigitsValue(SubSeq(d, 1, Len(d) - 1)) + d[Len(d)]

\* C1: policy selection. For a candidate list of N entries: N <= 30 gives
\* max_images = N, tolerance 0.60 and a scan that never stops early (it examines
\* all N); 31 <= N <= 100 gives max_images = min(N, 60) and tolerance 0.60;
\* N > 100 gives max_images = 80 and tolerance 0.65.
C1_PolicySelection ==
    pc \in {"scan", "scanned"} =>
        LET N == Len(image_urls) IN
        /\ total_images = N
        /\ N <= 30 =>
             /\ max_images = N
             /\ face_tolerance = 60
             /\ exit_branch = "none"
             /\ pc = "scanned" => processed_count = N
        /\ (N >= 31 /\ N <= 100) =>
             /\ max_images = (IF N <= 60 THEN N ELSE 60)
             /\ face_tolerance = 60
        /\ N > 100 =>
             /\ max_images = 80
             /\ face_tolerance = 65

C1_Witness ==
    /\ pc = "scanned"
    /\ Len(image_urls) > 100
    /\ max_images = 80
    /\ face_tolerance = 65
    /\ processed_count = 80

\* C2: early exit. With more than 50 candidates the loop stops right after the
\* candidate that brings the number of matches to 15: the matches never exceed
\* 15, the last candidate handed to the matcher is the one that produced the
\* 15th match, and nothing after it is fetched. With 60 candidates whose first
\* 15 all match, exactly the candidates 0..14 are examined.
C2_EarlyExit ==
    /\ (total_images > 50 /\ Len(matched_images) >= 15) =>
          /\ Len(matched_images) = 15
          /\ pc = "scanned"
          /\ exit_branch # "none"
          /\ fetched # <<>>
          /\ matched_images[15] = Payload(image_urls[fetched[Len(fetched)] + 1])
          /\ processed_count = Len(fetched)
    /\ (/\ pc = "scanned"
        /\ Len(image_urls) = 60
        /\ \A i \in 0..14 : Outcome(pattern, i) = "match") =>
          /\ processed_count = 15
          /\ fetched = Positions(15)

C2_Witness ==
    /\ pc = "scanned"
    /\ Len(image_urls) = 60
    /\ \A i \in 0..14 : Outcome(pattern, i) = "match"
    /\ processed_count = 15
    /\ exit_branch = "first"

\* C3: order preservation. At every point of the scan matched_images is the
\* payloads of the examined candidates that matched, in ascending position,
\* one entry per matching candidate.
MatchingPositions ==
    SelectSeq(Positions(Len(fetched)), LAMBDA i : Outcome(pattern, i) = "match")

C3_OrderPreserved ==
    pc \in {"scan", "scanned"} =>
        LET mp == MatchingPositions IN
        /\ fetched = Positions(Len(fetched))
        /\ matched_images = [k \in 1..Len(mp) |-> Payload(image_urls[mp[k] + 1])]

C3_Witness ==
    /\ pc = "scanned"
    /\ exit_branch = "none"
    /\ Len(image_urls) = 10
    /\ MatchingPositions = <<1, 3, 5, 7, 9>>
    /\ matched_images = <<Payload(image_urls[2]), Payload(image_urls[4]),
                          Payload(image_urls[6]), Payload(image_urls[8]),
                          Payload(image_urls[10])>>

\* C4: failure isolation. A candidate whose fetch or decode/compare fails is
\* counted as examined, adds nothing to matched_images and leaves the loop
\* running at the next candidate; no failed candidate's payload is ever in
\* matched_images; and a scan that ends without an early exit has examined
\* every candidate below the max_images cap.
C4_StateInv ==
    /\ \A k \in 1..Len(matched_images) :
          \E i \in 0..(Len(image_urls) - 1) :
             /\ matched_images[k] = Payload(image_urls[i + 1])
             /\ Outcome(pattern, i) = "match"
    /\ (pc = "scanned" /\ exit_branch = "none") => fetched = Positions(max_images)

C4_FailedStep ==
    (/\ pc = "scan"
     /\ idx < Len(LoopSlice)
     /\ Outcome(pattern, idx) \in Failures) =>
        /\ processed_count' = processed_count + 1
        /\ fetched' = Append(fetched, idx)
        /\ matched_images' = matched_images
        /\ pc' = "scan"
        /\ idx' = idx + 1

C4_FailureIsolation == [](C4_StateInv) /\ [][C4_FailedStep]_vars

C4_Witness ==
    /\ pc = "scanned"
    /\ \E i \in 1..Len(fetched), j \in 1..Len(fetched) :
          /\ i < j
          /\ Outcome(pattern, fetched[i]) \in Failures
          /\ Outcome(pattern, fetched[j]) = "match"
          /\ \E k \in 1..Len(matched_images) :
                matched_images[k] = Payload(image_urls[fetched[j] + 1])
    /\ processed_count = Len(fetched)

\* C5: scan bounds. During and after the scan processed_count <= max_images <=
\* total_images, and no position is handed to the matcher twice.
C5_ScanBounds ==
    pc \in {"scan", "scanned"} =>
        /\ processed_count <= max_images
        /\ max_images <= total_images
        /\ processed_count = Len(fetched)
        /\ Cardinality({ fetched[a] : a \in 1..Len(fetched) }) = Len(fetched)

C5_Witness ==
    /\ pc = "scanned"
    /\ exit_branch = "none"
    /\ processed_count = max_images
    /\ max_images < total_images

\* C6: archive round trip. create_photos_zip succeeds on every payload list of
\* n >= 0 entries; the archive has n entries with n distinct names; the k-th is
\* named photo_<k, zero-padded to 3 digits>.jpg and reading that name back
\* yields the k-th payload.
C6_ArchiveRoundTrip ==
    pc = "zipped" =>
        LET n == Len(matched_images) IN
        /\ zip_data.built
        /\ Len(zip_data.entries) = n
        /\ Cardinality(ZipNames(zip_data)) = n
        /\ \A k \in 1..n :
              LET name == zip_data.entries[k].name IN
              /\ name.prefix = "photo_"
              /\ name.ext = ".jpg"
              /\ Len(name.digits) >= 3
              /\ k < 1000 => Len(name.digits) = 3
              /\ \A c \in 1..Len(name.digits) : name.digits[c] \in 0..9
              /\ DigitsValue(name.digits) = k
              /\ ZipRead(zip_data, name) = matched_images[k]

C6_Witness ==
    /\ pc = "zipped"
    /\ Len(matched_images) >= 100
    /\ matched_images[1] # matched_images[2]
    /\ zip_data.entries[1].name.digits = <<0, 0, 1>>
    /\ zip_data.entries[100].name.digits = <<1, 0, 0>>
    /\ ZipRead(zip_data, zip_data.entries[2].name) = matched_images[2]

\* C7: scan preconditions. No candidate is fetched, and the policy block is not
\* entered, unless load_and_encode_face returned an encoding and the candidate
\* list is non-empty; a missing encoding or an empty list is answered with a
\* 400 error with nothing fetched.
C7_ScanPreconditions ==
    /\ (fetched # <<>> \/ pc \in {"policy", "scan", "scanned"}) =>
          /\ reference_encoding # None
          /\ image_urls # <<>>
    /\ (pc = "done" /\ (reference_encoding = None \/ image_urls = <<>>)) =>
          /\ fetched = <<>>
          /\ response.status \in {400, 500}
          /\ ~zip_data.built

C7_Witness ==
    /\ pc = "scan"
    /\ fetched # <<>>
    /\ reference_encoding # None
    /\ image_urls # <<>>

\* C8: empty result. A scan that ends with no match is answered with the 404
\* "no matches" response and create_photos_zip is not called; the archive is
\* only ever built from a non-empty matched_images.
C8_EmptyResult ==
    /\ (pc = "done" /\ processed_count > 0 /\ matched_images = <<>>) =>
          /\ ~zip_data.built
          /\ response = Error(404, "No photos found with your face")
    /\ zip_data.built =>
          /\ matched_images # <<>>
          /\ Len(zip_data.entries) = Len(matched_images)
          /\ response.status = 200

C8_Witness ==
    /\ pc = "done"
    /\ processed_count > 0
    /\ matched_images = <<>>
    /\ response.status = 404
    /\ ~zip_data.built

\* C9: the second early-exit branch (total > 100 and 25 matches) never ends the
\* loop, and with more than 100 candidates the matches never reach 25: the
\* first branch stops the scan at 15.
C9_SecondBranchDead ==
    /\ exit_branch # "second"
    /\ total_images > 100 => Len(matched_images) < 25
    /\ (total_images > 100 /\ Len(matched_images) >= 15) => exit_branch = "first"

C9_Witness ==
    /\ pc = "scanned"
    /\ total_images > 100
    /\ exit_branch = "first"
    /\ Len(matched_images) = 15

\* C10: in a request, get_drive_images returns at most 50 candidates, so no
\* early exit fires, the large-folder tier (cap 80, tolerance 0.65) is never
\* selected, max_images = total_images, and when the loop has ended every
\* discovered candidate has been examined exactly once.
C10_RequestTotals ==
    /\ Len(image_urls) <= 50
    /\ total_images <= 50
    /\ exit_branch = "none"
    /\ face_tolerance # 65
    /\ pc \in {"scan", "scanned"} =>
          /\ max_images = total_images
          /\ total_images = Len(image_urls)
          /\ face_tolerance = 60
    /\ (pc = "scanned" \/ (pc = "done" /\ image_urls # <<>>)) =>
          /\ processed_count = total_images
          /\ fetched = Positions(total_images)

C10_Witness ==
    /\ pc = "scanned"
    /\ total_images = 50
    /\ processed_count = 50
    /\ Len(matched_images) = 50

====
